---- MODULE Spec2Model ----
(***************************************************************************)
(* n-ary Huffman tree construction of huffman_arpeggio/core.py:            *)
(* build_huffman_tree (uniqueness check, calculate_padding, leaf creation, *)
(* merge_nodes) followed by generate_encoding_map_with_count.              *)
(*                                                                         *)
(* The heap of merge_nodes is modelled by heapq's contract: heappop        *)
(* removes an item x such that no item y of the heap has y < x (Node.__lt__*)
(* compares counts only), so every way of breaking ties between nodes of   *)
(* equal count is a behaviour of the model.                                *)
(***************************************************************************)
EXTENDS Integers, Sequences, FiniteSets, TLC

\* ---- bounds of the explored inputs ----
MaxTargets == 4
MaxCount == 2
MaxBranches == 3
MaxIterations == 6

TargetNames == <<"a", "b", "c", "d", "e", "f">>
SymbolNames == <<"0", "1", "2", "3", "4", "5">>
Targets == {TargetNames[i] : i \in 1..MaxTargets}

\* Python's None as the target of a padding leaf or of a merged node
None == "None"

\* count_dict, symbols: the arguments; pc: the position in the pipeline;
\* err: the exception raised, if any; padding: <<>> until line 90 assigns
\* <<num_branch_points, num_padding>>; nodes: the heap list; root: <<>> for
\* None, <<node>> otherwise; iterations, popped: the while loop's iterations
\* so far and the number of nodes each of them popped
VARIABLES count_dict, symbols, pc, err, padding, nodes, root, encoding_map,
          iterations, popped

vars == <<count_dict, symbols, pc, err, padding, nodes, root, encoding_map,
          iterations, popped>>

\* ---- helpers on sequences ----
Range(s) == {s[i] : i \in DOMAIN s}

RemoveAt(s, i) == [j \in 1..(Len(s) - 1) |-> IF j < i THEN s[j] ELSE s[j + 1]]

Min(a, b) == IF a < b THEN a ELSE b

RECURSIVE SumSeq(_)
SumSeq(s) == IF s = <<>> THEN 0 ELSE s[1] + SumSeq(Tail(s))

\* ---- Node ----
Node(count, target, children) ==
  [count |-> count, target |-> target, children |-> children]

\* variant: the comparison reversed
NodeLtReversed(a, b) == a.count > b.count

\* Node.__lt__
NodeLt(a, b) == a.count < b.count

\* ---- calculate_padding ----
\* math.ceil(x / y) on integers, y # 0
CeilDiv(x, y) == IF y > 0 THEN -((-x) \div y) ELSE -(x \div (-y))

\* variant: num_elements in place of num_elements - 1
calculate_padding_ceil_n(num_elements, num_branches) ==
  LET num_branch_points == CeilDiv(num_elements, num_branches - 1)
      num_padding == 1 + (num_branches - 1) * num_branch_points - num_elements
  IN <<num_branch_points, num_padding>>

\* variant: no padding
calculate_padding_none(num_elements, num_branches) ==
  <<CeilDiv(num_elements - 1, num_branches - 1), 0>>

calculate_padding(num_elements, num_branches) ==
  LET num_branch_points == CeilDiv(num_elements - 1, num_branches - 1)
      num_padding == 1 + (num_branches - 1) * num_branch_points - num_elements
  IN <<num_branch_points, num_padding>>

\* ---- merge_nodes ----
\* the indices heappop may return: items with no smaller item in the heap
HeapMin(heap) ==
  {i \in DOMAIN heap : \A j \in DOMAIN heap : ~NodeLt(heap[j], heap[i])}

\* the k successive heappops of one loop body: the set of
\* <<merged_children, remaining heap>> outcomes
RECURSIVE PopK(_, _, _)
PopK(heap, k, merged_children) ==
  IF k = 0 THEN {<<merged_children, heap>>}
  ELSE UNION {PopK(RemoveAt(heap, i), k - 1, Append(merged_children, heap[i]))
              : i \in HeapMin(heap)}

\* variant: the merged node keeps its first child's target
MergedNodeFirstTarget(merged_children) ==
  Node(SumSeq([i \in DOMAIN merged_children |-> merged_children[i].count]),
       IF merged_children = <<>> THEN None ELSE merged_children[1].target,
       merged_children)

\* variant: merged_count assigned, not accumulated
MergedNodeLastCount(merged_children) ==
  Node(IF merged_children = <<>> THEN 0
       ELSE merged_children[Len(merged_children)].count,
       None, merged_children)

\* merged_count accumulated over the popped nodes; Node(merged_count, None, merged_children)
MergedNode(merged_children) ==
  Node(SumSeq([i \in DOMAIN merged_children |-> merged_children[i].count]),
       None, merged_children)

\* ---- build_huffman_tree ----
\* variant: the uniqueness test dropped
HasDuplicatesNever(syms) == FALSE

\* len(symbols) != len(set(symbols))
HasDuplicates(syms) == Len(syms) # Cardinality(Range(syms))

\* the leaves in dict order (targets are unique keys), then the padding leaves
RECURSIVE LeavesOf(_, _)
LeavesOf(cd, names) ==
  IF names = <<>> THEN <<>>
  ELSE (IF names[1] \in DOMAIN cd
        THEN <<Node(cd[names[1]], names[1], <<>>)>> ELSE <<>>)
       \o LeavesOf(cd, Tail(names))

PaddingLeaves(num_padding) ==
  [i \in 1..(IF num_padding > 0 THEN num_padding ELSE 0) |-> Node(0, None, <<>>)]

\* ---- generate_encoding_map_with_count ----
\* the assignments encoding_map[tuple(path)] = ... in the order traverse makes them
\* variant: the first symbol on every edge
EdgeSymbolFirst(syms, i) == syms[1]

\* symbols[i] for the child at position i (line 114)
EdgeSymbol(syms, i) == syms[i]

RECURSIVE traverse(_, _, _, _), traverseChildren(_, _, _, _, _)
traverse(node, path, syms, cd) ==
  (IF node.target # None
   THEN <<<<path, <<node.target, cd[node.target]>>>>>> ELSE <<>>)
  \o traverseChildren(node.children, 1, path, syms, cd)

traverseChildren(children, i, path, syms, cd) ==
  IF i > Len(children) THEN <<>>
  ELSE traverse(children[i], Append(path, EdgeSymbol(syms, i)), syms, cd)
       \o traverseChildren(children, i + 1, path, syms, cd)

\* the dict the assignments leave: a later assignment to a key overwrites
DictOf(assignments) ==
  [p \in {assignments[i][1] : i \in DOMAIN assignments} |->
     LET last == CHOOSE i \in DOMAIN assignments :
                   /\ assignments[i][1] = p
                   /\ \A j \in DOMAIN assignments :
                        assignments[j][1] = p => j <= i
     IN assignments[last][2]]

EmptyMap == DictOf(<<>>)

\* ---- inputs ----
FrequencyTables ==
  UNION {[T -> 0..MaxCount] : T \in SUBSET Targets}

\* the alphabets tried: the first k symbol names, and those with one position
\* overwritten by the symbol of another position (a repeated symbol)
FirstSymbols(k) == [i \in 1..k |-> SymbolNames[i]]

Alphabets ==
  {FirstSymbols(k) : k \in 0..MaxBranches}
  \cup {[FirstSymbols(k) EXCEPT ![i] = SymbolNames[j]] :
          <<k, i, j>> \in {t \in (2..MaxBranches) \X (1..MaxBranches) \X (1..MaxBranches) :
                            t[2] <= t[1] /\ t[3] <= t[1] /\ t[2] # t[3]}}

\* the textbook binary scenario
ClassicTable ==
  [t \in {"a", "b", "c", "d", "e", "f"} |->
     CASE t = "a" -> 5 [] t = "b" -> 9 [] t = "c" -> 12
       [] t = "d" -> 13 [] t = "e" -> 16 [] t = "f" -> 45]

BinaryAlphabets == {<<"0", "1">>, <<"1", "0">>}

Inputs ==
  (FrequencyTables \X Alphabets) \cup ({ClassicTable} \X BinaryAlphabets)

Init ==
  /\ \E in \in Inputs : count_dict = in[1] /\ symbols = in[2]
  /\ pc = "start"
  /\ err = "none"
  /\ padding = <<>>
  /\ nodes = <<>>
  /\ root = <<>>
  /\ encoding_map = EmptyMap
  /\ iterations = 0
  /\ popped = <<>>

\* ---- build_huffman_tree, lines 84-85 ----
RaiseDuplicateSymbols ==
  /\ pc = "start"
  /\ HasDuplicates(symbols)
  /\ pc' = "error"
  /\ err' = "ValueError"
  /\ UNCHANGED <<count_dict, symbols, padding, nodes, root, encoding_map,
                 iterations, popped>>

SymbolsUnique ==
  /\ pc = "start"
  /\ ~HasDuplicates(symbols)
  /\ pc' = "padding"
  /\ UNCHANGED <<count_dict, symbols, err, padding, nodes, root, encoding_map,
                 iterations, popped>>

\* ---- lines 87-90; the true division of line 47 raises on num_branches = 1 ----
RaiseZeroDivision ==
  /\ pc = "padding"
  /\ Len(symbols) - 1 = 0
  /\ pc' = "error"
  /\ err' = "ZeroDivisionError"
  /\ UNCHANGED <<count_dict, symbols, padding, nodes, root, encoding_map,
                 iterations, popped>>

CalculatePadding ==
  /\ pc = "padding"
  /\ Len(symbols) - 1 # 0
  /\ padding' = calculate_padding(Cardinality(DOMAIN count_dict), Len(symbols))
  /\ pc' = "leaves"
  /\ UNCHANGED <<count_dict, symbols, err, nodes, root, encoding_map,
                 iterations, popped>>

\* ---- lines 92-95, and the call of merge_nodes up to its loop ----
CreateNodes ==
  /\ pc = "leaves"
  /\ nodes' = LeavesOf(count_dict, TargetNames) \o PaddingLeaves(padding[2])
  /\ pc' = "merge"
  /\ UNCHANGED <<count_dict, symbols, err, padding, root, encoding_map,
                 iterations, popped>>

\* ---- one iteration of the while loop, lines 61-71 ----
MergeStep ==
  /\ pc = "merge"
  /\ Len(nodes) > 1
  /\ iterations < MaxIterations
  /\ \E out \in PopK(nodes, Min(Len(symbols), Len(nodes)), <<>>) :
       /\ nodes' = Append(out[2], MergedNode(out[1]))
       /\ popped' = Append(popped, Len(out[1]))
  /\ iterations' = iterations + 1
  /\ UNCHANGED <<count_dict, symbols, pc, err, padding, root, encoding_map>>

\* ---- line 73 and line 99: the root, or None for an empty list ----
ReturnRoot ==
  /\ pc = "merge"
  /\ Len(nodes) <= 1
  /\ root' = nodes
  /\ pc' = "built"
  /\ UNCHANGED <<count_dict, symbols, err, padding, nodes, encoding_map,
                 iterations, popped>>

\* ---- generate_encoding_map_with_count; traverse(None, ...) raises ----
RaiseNoneRoot ==
  /\ pc = "built"
  /\ root = <<>>
  /\ pc' = "error"
  /\ err' = "AttributeError"
  /\ UNCHANGED <<count_dict, symbols, padding, nodes, root, encoding_map,
                 iterations, popped>>

GenerateEncodingMap ==
  /\ pc = "built"
  /\ root # <<>>
  /\ encoding_map' = DictOf(traverse(root[1], <<>>, symbols, count_dict))
  /\ pc' = "done"
  /\ UNCHANGED <<count_dict, symbols, err, padding, nodes, root,
                 iterations, popped>>

Next ==
  \/ RaiseDuplicateSymbols
  \/ SymbolsUnique
  \/ RaiseZeroDivision
  \/ CalculatePadding
  \/ CreateNodes
  \/ MergeStep
  \/ ReturnRoot
  \/ RaiseNoneRoot
  \/ GenerateEncodingMap

Spec == Init /\ [][Next]_vars

\* ======================= properties =======================

NumElements == Cardinality(DOMAIN count_dict)
NumBranches == Len(symbols)
RepeatedSymbol ==
  \E i, j \in DOMAIN symbols : i # j /\ symbols[i] = symbols[j]
ValidAlphabet == NumBranches >= 2 /\ ~RepeatedSymbol
\* the sum of f over the keys S
RECURSIVE SumOver(_, _)
SumOver(f, S) ==
  IF S = {} THEN 0
  ELSE LET x == CHOOSE y \in S : TRUE IN f[x] + SumOver(f, S \ {x})

TotalCount == SumOver(count_dict, DOMAIN count_dict)
CodeWords == DOMAIN encoding_map
IsPrefix(p, q) == Len(p) <= Len(q) /\ SubSeq(q, 1, Len(p)) = p
PaddingLeaf == Node(0, None, <<>>)

\* the node and every node below it
RECURSIVE TreeNodes(_)
TreeNodes(node) ==
  {node} \cup UNION {TreeNodes(node.children[i]) : i \in DOMAIN node.children}

\* every node held by the heap list, at any depth
AllNodes == UNION {TreeNodes(nodes[i]) : i \in DOMAIN nodes}

HeapCount == SumSeq([i \in DOMAIN nodes |-> nodes[i].count])

\* C1: for a table with unique targets and an alphabet of b >= 2 unique
\* symbols, the returned encoding map has exactly one entry per target: as
\* many entries as targets, and every target is the target of exactly one
\* code word.
C1_OneEntryPerTarget ==
  (pc = "done" /\ ValidAlphabet) =>
    /\ Cardinality(CodeWords) = NumElements
    /\ \A t \in DOMAIN count_dict :
         Cardinality({p \in CodeWords : encoding_map[p][1] = t}) = 1

C1_Witness ==
  /\ pc = "done" /\ NumBranches = 3 /\ NumElements = 4
  /\ Cardinality(CodeWords) = 4

\* C2: in the returned map no code word is a prefix of (or equal to) a
\* different code word, and no node that carries a target has children,
\* in the heap during the merge or in the returned tree.
TargetOnLeafOnly(node) == node.target # None => node.children = <<>>

C2_PrefixFree ==
  ValidAlphabet =>
    /\ \A m \in AllNodes : TargetOnLeafOnly(m)
    /\ pc = "done" =>
         \A p, q \in CodeWords : p # q => ~IsPrefix(p, q)

C2_Witness ==
  /\ pc = "done" /\ ValidAlphabet
  /\ \E p, q \in CodeWords : Len(p) = 1 /\ Len(q) = 3

\* C3: the produced code minimizes the expected code length: the sum over
\* the entries of count x code-word length equals the least such sum over
\* all prefix-free codes on b symbols for the same targets.  By Kraft's
\* inequality the prefix-free codes are the length assignments l with
\* sum b^(-l(t)) <= 1; lengths up to n - 1 suffice for n targets.
RECURSIVE Pow(_, _)
Pow(b, e) == IF e = 0 THEN 1 ELSE b * Pow(b, e - 1)

SetMin(S) == CHOOSE x \in S : \A y \in S : x <= y

\* <<b^L, ..., b, 1>>: the units of b^(-L) a code word of length 0, ..., L spends
RECURSIVE Weights(_, _)
Weights(b, L) ==
  IF L = 0 THEN <<1>> ELSE <<Pow(b, L)>> \o Weights(b, L - 1)

RECURSIVE SetToSeq(_)
SetToSeq(S) ==
  IF S = {} THEN <<>>
  ELSE LET x == CHOOSE y \in S : TRUE IN <<x>> \o SetToSeq(S \ {x})

\* the least cost of a length assignment to the targets ts that spends at
\* most `budget` units; every target left needs at least one unit
RECURSIVE KraftMin(_, _, _, _)
KraftMin(cd, ts, W, budget) ==
  IF ts = <<>> THEN 0
  ELSE LET fits == {j \in DOMAIN W : budget - W[j] >= Len(ts) - 1}
       IN SetMin({cd[ts[1]] * (j - 1) + KraftMin(cd, Tail(ts), W, budget - W[j])
                  : j \in fits})

MinCost(cd, b) ==
  LET n == Cardinality(DOMAIN cd)
      L == IF n = 0 THEN 0 ELSE n - 1
  IN KraftMin(cd, SetToSeq(DOMAIN cd), Weights(b, L), Pow(b, L))

\* <<table, alphabet size, least cost>> for every table and size explored
OptimalCosts ==
  {<<in[1], in[2], MinCost(in[1], in[2])>> :
     in \in (FrequencyTables \X (2..MaxBranches)) \cup {<<ClassicTable, 2>>}}

CodeCost ==
  LET cost == [p \in CodeWords |-> encoding_map[p][2] * Len(p)]
  IN SumOver(cost, CodeWords)

C3_MinimalExpectedLength ==
  (pc = "done" /\ ValidAlphabet) =>
    <<count_dict, NumBranches, CodeCost>> \in OptimalCosts

C3_Witness ==
  /\ pc = "done" /\ NumBranches = 3 /\ NumElements = 4
  /\ padding[2] = 1
  /\ \A t \in DOMAIN count_dict : count_dict[t] > 0
  /\ <<count_dict, 3, CodeCost>> \in OptimalCosts

\* C4: with b >= 2 every iteration of the merge loop pops exactly b nodes,
\* the loop ends with exactly one node after exactly num_branch_points
\* iterations, and every internal node has exactly b children.
FullOrLeaf(node) == Len(node.children) \in {0, NumBranches}

C4_ExactMerges ==
  ValidAlphabet =>
    /\ \A i \in DOMAIN popped : popped[i] = NumBranches
    /\ \A m \in AllNodes : FullOrLeaf(m)
    /\ pc = "built" => Len(nodes) = 1 /\ iterations = padding[1]

\* C5: with b >= 2, after heapify and after every merge step the counts of
\* the nodes in the heap sum to the sum of the table's counts, every
\* internal node's count is the sum of its children's counts, and the
\* returned root's count is the sum of the table's counts.
CountIsChildSum(node) ==
  node.children # <<>> =>
    node.count =
      SumSeq([i \in DOMAIN node.children |-> node.children[i].count])

C6_SmallAlphabetRejected ==
  NumBranches < 2 => pc \notin {"built", "done"} /\ iterations = 0

\* C7: with a repeated symbol in the alphabet the call fails with the
\* duplicate-symbol error (the ValueError of line 85) before any tree work:
\* no padding is computed, no node is created, no merge step runs, and the
\* frequency table stays as it was.
C7_DuplicateSymbolFirst ==
  /\ [](RepeatedSymbol =>
          /\ pc \in {"start", "error"}
          /\ pc = "error" => err = "ValueError"
          /\ padding = <<>> /\ nodes = <<>> /\ root = <<>>
          /\ iterations = 0 /\ popped = <<>>)
  /\ [][RepeatedSymbol => count_dict' = count_dict]_vars

C7_Witness ==
  /\ RepeatedSymbol /\ NumElements >= 2
  /\ pc = "error" /\ err = "ValueError"

\* C8: for the empty table and b >= 2 unique symbols calculate_padding
\* returns (0, 1), the tree is a single padding leaf, the encoding map is
\* empty and no step ends in an error.
C8_EmptyTable ==
  (NumElements = 0 /\ ValidAlphabet) =>
    /\ pc # "error"
    /\ padding # <<>> => padding = <<0, 1>>
    /\ pc \in {"built", "done"} => root = <<PaddingLeaf>>
    /\ pc = "done" => encoding_map = EmptyMap

\* C9: for a table with one target x of count c and b >= 2 unique symbols
\* no padding leaf is added, no merge step runs, the root is the leaf of x
\* and the encoding map is the single entry () -> (x, c).
C9_SingleTarget ==
  (NumElements = 1 /\ ValidAlphabet) =>
    LET x == CHOOSE t \in DOMAIN count_dict : TRUE
        leaf == Node(count_dict[x], x, <<>>)
    IN /\ pc # "error"
       /\ padding # <<>> => padding[2] = 0
       /\ iterations = 0
       /\ pc \in {"merge", "built", "done"} => nodes = <<leaf>>
       /\ pc \in {"built", "done"} => root = <<leaf>>
       /\ pc = "done" =>
            encoding_map = DictOf(<< <<<<>>, <<x, count_dict[x]>>>> >>)

C9_Witness ==
  /\ NumElements = 1 /\ NumBranches = 3 /\ pc = "done"
  /\ \E t \in DOMAIN count_dict : count_dict[t] = 2
  /\ CodeWords = {<<>>}

\* C10: for {a:5, b:9, c:12, d:13, e:16, f:45} and 2 symbols the six code
\* words have lengths 1, 3, 3, 3, 4, 4: f has length 1, c, d and e have
\* length 3, a and b have length 4.
LengthCount(k) == Cardinality({p \in CodeWords : Len(p) = k})
WordsOfLength(k) == {encoding_map[p][1] : p \in {q \in CodeWords : Len(q) = k}}
ClassicDone == pc = "done" /\ count_dict = ClassicTable /\ NumBranches = 2

C10_ClassicLengths ==
  ClassicDone =>
    /\ Cardinality(CodeWords) = 6
    /\ LengthCount(1) = 1 /\ LengthCount(3) = 3 /\ LengthCount(4) = 2
    /\ WordsOfLength(1) = {"f"}
    /\ WordsOfLength(3) = {"c", "d", "e"}
    /\ WordsOfLength(4) = {"a", "b"}

C10_Witness == ClassicDone /\ iterations = 5 /\ LengthCount(4) = 2

\* C10 as the spec states it: lengths 1, 3, 3, 3, 3, 4
C10_SpecLengths ==
  ClassicDone =>
    /\ Cardinality(CodeWords) = 6
    /\ LengthCount(1) = 1 /\ LengthCount(3) = 4 /\ LengthCount(4) = 1
====
